---- MODULE Spec2Model ----
(***************************************************************************)
(* Device registry and call-log backend of call-backend, in its two        *)
(* storage variants: the SQLite server (src/unnamed/part_000, prefix Sq)   *)
(* and the MongoDB/Mongoose server (src/server.js, prefix Mg).             *)
(*                                                                         *)
(* Spec     : one running server, each request served to completion before *)
(*            the next; the clients give every call log an id.             *)
(* PairSpec : both servers running and fed the same requests, among them   *)
(*            call logs without an id and the device routes; the stores    *)
(*            never fail.                                                  *)
(* TopSpec  : one running server, synced with batches that put up to      *)
(*            NumPhones phone numbers in the store, and asked for the      *)
(*            statistics.                                                  *)
(* ConcSpec : the SQLite server with requests in flight together: a        *)
(*            handler schedules its statements on the connection and       *)
(*            returns, the connection runs them one at a time, and each    *)
(*            callback schedules what its handler does next.               *)
(*                                                                         *)
(* Values.  A JavaScript undefined in a request, an SQL NULL in a row and  *)
(* a field missing from a document are all written Null (text) or NullInt  *)
(* (numbers): node-sqlite3 binds undefined as NULL, and a query answer     *)
(* serialised to JSON shows a missing field and a null alike.              *)
(* A table or collection is the set of its rows: the order of the rows is  *)
(* observable only where a query leaves its answer's order open.           *)
(***************************************************************************)
EXTENDS Integers, Sequences, FiniteSets, TLC

VARIABLES
    now,          \* Date.now() of the server clock
    running,      \* the servers that are running, of "sqlite" and "mongo"
    omitUndefined, \* the installed Mongoose drops undefined keys from an update
    sqDevices,    \* table devices of call_logs.db
    sqCallLogs,   \* table call_logs of call_logs.db
    sqRes,        \* the response of the SQLite server to the request in service
    sqCrashed,    \* the SQLite server process died of an unhandled 'error' event
    mgDevices,    \* collection of model Device
    mgCallLogs,   \* collection of model CallLog
    mgRes,        \* the response of the Mongo server to the request in service
    dbQueue,      \* the statements scheduled on the SQLite connection db, oldest first
    stats,        \* the stats object of the statistics request in flight
    cleared       \* a clear-db response went out and no write request came after it

vars == <<now, running, omitUndefined, sqDevices, sqCallLogs, sqRes, sqCrashed,
          mgDevices, mgCallLogs, mgRes, dbQueue, stats, cleared>>
sqVars == <<sqDevices, sqCallLogs, sqRes, sqCrashed>>
mgVars == <<mgDevices, mgCallLogs, mgRes>>
concVars == <<dbQueue, stats, cleared>>

----------------------------------------------------------------------------
(* Bounds *)

MaxNow == 2        \* the clock runs from 1 to MaxNow
MaxLogs == 3       \* a request that could grow a store beyond this is not issued
RandomRange == 2   \* Math.floor(Math.random() * 1000) is drawn from 0..RandomRange-1
MaxQueue == 4      \* a request that could grow dbQueue beyond this is not issued
NumPhones == 12    \* the phone numbers of the batches of TopSpec

----------------------------------------------------------------------------
(* Values *)

Null == "NULL"
NullInt == 0 - 1

IntFields == {"registeredAt", "lastHeartbeat", "callDate", "callDuration", "timestamp"}

\* JavaScript: v === undefined, for the value v of field f
IsUndefined(f, v) == IF f \in IntFields THEN v = NullInt ELSE v = Null

\* JavaScript: !v  (undefined, the empty string and 0 are falsy)
FalsyText(v) == v \in {Null, ""}
FalsyInt(v) == v \in {NullInt, 0}

----------------------------------------------------------------------------
(* Record store, SQLite *)

\* INSERT OR REPLACE INTO t ...: the rows whose primary key equals the new
\* row's are deleted and the new row is inserted. A NULL key conflicts with nothing.
InsertOrReplace(table, pk, row) ==
    {r \in table : r[pk] # row[pk] \/ row[pk] = Null} \cup {row}

----------------------------------------------------------------------------
(* Record store, Mongoose *)

\* castUpdate: an update without operators becomes {$set: update}. Mongoose 6
\* and later removes the keys whose value is undefined; Mongoose 5 keeps them
\* and the driver writes them as null. The source does not pin the version.
CastUpdate(update) ==
    {f \in DOMAIN update : ~(omitUndefined /\ IsUndefined(f, update[f]))}

\* $set of the cast update on a document
ApplySet(doc, update) ==
    [f \in DOMAIN doc |-> IF f \in CastUpdate(update) THEN update[f] ELSE doc[f]]

\* updateOne / findOneAndUpdate({key: value}, update, {upsert}): a matching
\* document is updated in place (key carries a unique index, so there is at most
\* one); without a match and with upsert a document is inserted, built from
\* the filter's equality and the $set.
UpdateOne(coll, key, value, update, upsert, blank) ==
    LET matching == {d \in coll : d[key] = value} IN
    IF matching # {}
    THEN LET d == CHOOSE d \in matching : TRUE
         IN (coll \ {d}) \cup {ApplySet(d, update)}
    ELSE IF upsert
         THEN coll \cup {ApplySet([blank EXCEPT ![key] = value], update)}
         ELSE coll

\* E11000 duplicate key: the document that updateOne would write carries, in
\* the field with the unique index, the value of another document (a missing
\* or null value is indexed like any other)
DuplicateKey(coll, key, value, update, upsert, blank) ==
    LET matching == {d \in coll : d[key] = value}
        written == IF matching # {}
                   THEN {ApplySet(d, update) : d \in matching}
                   ELSE IF upsert
                        THEN {ApplySet([blank EXCEPT ![key] = value], update)}
                        ELSE {}
    IN \E w \in written : \E d \in coll \ matching : d[key] = w[key]

\* documents with no field set
BlankDevice == [deviceId |-> Null, deviceName |-> Null, phoneNumber |-> Null,
                registeredAt |-> NullInt, lastHeartbeat |-> NullInt]
BlankCallLog == [id |-> Null, deviceId |-> Null, phoneNumber |-> Null,
                 contactName |-> Null, callType |-> Null, callDate |-> NullInt,
                 callDuration |-> NullInt, timestamp |-> NullInt]

----------------------------------------------------------------------------
(* Requests *)

DeviceIds == {"A1", "B2"}

\* bodies of POST /api/devices/register
RegisterFull == [deviceId |-> "A1", deviceName |-> "Pixel", phoneNumber |-> "100",
                 registeredAt |-> 1]
RegisterSparse == [deviceId |-> "A1", deviceName |-> Null, phoneNumber |-> Null,
                   registeredAt |-> NullInt]
RegisterBodies == {RegisterFull, RegisterSparse}

\* call-log objects a client sends
LogFull == [id |-> "x", phoneNumber |-> "555", contactName |-> "Ann", callType |-> "missed",
            callDate |-> 2, callDuration |-> 30, timestamp |-> 9]
LogSparse == [id |-> "x", phoneNumber |-> Null, contactName |-> Null, callType |-> Null,
              callDate |-> NullInt, callDuration |-> NullInt, timestamp |-> NullInt]
LogY == [id |-> "y", phoneNumber |-> "777", contactName |-> "Bob", callType |-> "incoming",
         callDate |-> 1, callDuration |-> 10, timestamp |-> 8]
LogNoId == [id |-> Null, phoneNumber |-> "555", contactName |-> Null, callType |-> "missed",
            callDate |-> 3, callDuration |-> 5, timestamp |-> NullInt]
LogZ == [id |-> "z", phoneNumber |-> "555", contactName |-> Null, callType |-> "missed",
         callDate |-> 3, callDuration |-> 5, timestamp |-> NullInt]
LogsWithId == {LogFull, LogSparse, LogY, LogZ}

\* the callLogs field of a sync body: absent, a value that is no array, or an array
CallLogsAbsent == [kind |-> "undefined", items |-> <<>>]
CallLogsString == [kind |-> "string", items |-> <<>>]
Array(items) == [kind |-> "array", items |-> items]
SyncCallLogs ==
    {CallLogsAbsent, CallLogsString, Array(<<>>)}
        \cup {Array(<<l>>) : l \in LogsWithId}
        \cup {Array(<<LogFull, LogY>>)}
SyncBodies == [deviceId : DeviceIds, callLogs : SyncCallLogs]

\* sync bodies with records that carry no id
SyncBodiesNoId ==
    [deviceId : {"A1"},
     callLogs : {Array(<<>>), Array(<<LogFull>>), Array(<<LogSparse>>),
                 Array(<<LogNoId, LogNoId>>)}]

\* bodies of POST /api/call-logs: one call-log object with its own deviceId
AddBody(l, d) ==
    [id |-> l.id, deviceId |-> d, phoneNumber |-> l.phoneNumber,
     contactName |-> l.contactName, callType |-> l.callType, callDate |-> l.callDate,
     callDuration |-> l.callDuration, timestamp |-> l.timestamp]
AddBodies == {AddBody(l, d) : l \in LogsWithId, d \in DeviceIds}
AddBodiesNoId == {AddBody(LogNoId, "B2")}

\* bodies of POST /api/devices/heartbeat
HeartbeatBodies == [deviceId : {"A1"}, timestamp : {5}]

\* query strings of GET /api/call-logs: every combination of the five filters
\* without a limit, and the limits 0, 1, 2 with no filter and with one
FilterCombinations ==
    [deviceId : {Null, "A1"}, phoneNumber : {Null, "555"}, callType : {Null, "missed"},
     startDate : {Null, "2"}, endDate : {Null, "2"}, limit : {Null}]
LimitQueries ==
    [deviceId : {Null}, phoneNumber : {Null, "555"}, callType : {Null},
     startDate : {Null}, endDate : {Null}, limit : {"0", "1", "2"}]
Queries == FilterCombinations \cup LimitQueries
FewQueries == {q \in LimitQueries : q.phoneNumber = Null /\ q.limit \in {"0", "1"}}

\* requests of GET /api/call-logs/number/:phoneNumber
NumberQueries == [phoneNumber : {"555", "777"}, limit : {Null, "0", "1"}]

\* a validation that lets a string through as if it were an array
IsArrayOrString(v) == v.kind \in {"array", "string"}

\* Array.isArray(v)
IsArray(v) == v.kind = "array"

\* !v for such a value: undefined is falsy, a non-empty string and an array are not
NotValue(v) == v.kind = "undefined"

NoResponse == [route |-> "none", status |-> 0]
NoStats == [step |-> "none"]

----------------------------------------------------------------------------
(* Device routes *)

\* POST /api/devices/register
SqRegister(body) ==
    /\ sqDevices' = InsertOrReplace(sqDevices, "deviceId",
            [deviceId |-> body.deviceId, deviceName |-> body.deviceName,
             phoneNumber |-> body.phoneNumber, registeredAt |-> body.registeredAt,
             lastHeartbeat |-> now])
    /\ sqRes' = [route |-> "register", status |-> 200, req |-> body]
    /\ UNCHANGED <<sqCallLogs, sqCrashed>>

MgRegister(body) ==
    /\ mgDevices' = UpdateOne(mgDevices, "deviceId", body.deviceId,
            [deviceName |-> body.deviceName, phoneNumber |-> body.phoneNumber,
             registeredAt |-> body.registeredAt, lastHeartbeat |-> now],
            TRUE, BlankDevice)
    /\ mgRes' = [route |-> "register", status |-> 200, req |-> body]
    /\ UNCHANGED mgCallLogs

\* POST /api/devices/heartbeat
SqHeartbeat(body) ==
    /\ sqDevices' = { IF d.deviceId = body.deviceId
                      THEN [d EXCEPT !.lastHeartbeat = body.timestamp] ELSE d :
                      d \in sqDevices }
    /\ sqRes' = [route |-> "heartbeat", status |-> 200, req |-> body]
    /\ UNCHANGED <<sqCallLogs, sqCrashed>>

MgHeartbeat(body) ==
    /\ mgDevices' = UpdateOne(mgDevices, "deviceId", body.deviceId,
                              [lastHeartbeat |-> body.timestamp], FALSE, BlankDevice)
    /\ mgRes' = [route |-> "heartbeat", status |-> 200, req |-> body]
    /\ UNCHANGED mgCallLogs

\* ORDER BY registered_at DESC / sort({registeredAt: -1}): every listing of the
\* devices in non-increasing registeredAt order
OrderByRegisteredAtDesc(devices) ==
    LET n == Cardinality(devices) IN
    { s \in [1..n -> devices] :
        /\ \A i, j \in 1..n : i # j => s[i] # s[j]
        /\ \A i \in 1..n, j \in 1..n : i < j => s[i].registeredAt >= s[j].registeredAt }

\* GET /api/devices
SqGetDevices ==
    /\ \E rows \in OrderByRegisteredAtDesc(sqDevices) :
          sqRes' = [route |-> "getDevices", status |-> 200, devices |-> rows]
    /\ UNCHANGED <<sqDevices, sqCallLogs, sqCrashed>>

MgGetDevices ==
    /\ \E rows \in OrderByRegisteredAtDesc(mgDevices) :
          mgRes' = [route |-> "getDevices", status |-> 200, devices |-> rows]
    /\ UNCHANGED <<mgDevices, mgCallLogs>>

\* DELETE /api/admin/clear-db, with the two queued deletes run to their end.
\* The response is sent before either delete runs; neither db.run has a
\* callback, so a delete the store fails (failAt: 1 call_logs, 2 devices, 0
\* none) is reported to nobody, and the process dies there or goes on (crash).
SqClearDb(failAt, crash) ==
    /\ sqRes' = [route |-> "clearDb", status |-> 200, failAt |-> failAt]
    /\ sqCallLogs' = IF failAt = 1 THEN sqCallLogs ELSE {}
    /\ sqDevices' = IF failAt = 2 \/ (failAt = 1 /\ crash) THEN sqDevices ELSE {}
    /\ sqCrashed' = (crash /\ failAt # 0)

----------------------------------------------------------------------------
(* Sync engine *)

\* `${Date.now()}_${Math.floor(Math.random() * 1000)}`
SqSynthId(t, r) == ToString(t) \o "_" \o ToString(r)

\* `${Date.now()}_${Math.random()}`: Math.random() is a 52-bit fraction; the
\* model gives it the first value that makes an id no stored document has.
MgSynthName(t, k) == ToString(t) \o "_0." \o ToString(k)
MgSynthId(coll, t) ==
    LET used == {d.id : d \in coll}
        k == CHOOSE k \in 0..Cardinality(coll) :
                /\ MgSynthName(t, k) \notin used
                /\ \A j \in 0..(k - 1) : MgSynthName(t, j) \in used
    IN MgSynthName(t, k)

\* the parameters of stmt.run / db.run for one call log
SqLogRow(log, deviceId, t, r) ==
    [id |-> IF FalsyText(log.id) THEN SqSynthId(t, r) ELSE log.id,
     deviceId |-> deviceId,
     phoneNumber |-> log.phoneNumber,
     contactName |-> log.contactName,
     callType |-> log.callType,
     callDate |-> log.callDate,
     callDuration |-> log.callDuration,
     timestamp |-> IF FalsyInt(log.timestamp) THEN t ELSE log.timestamp]

\* callLogs.forEach(log => stmt.run([...])) from item i on: rs[i] is the random
\* number drawn for item i, failAt the item whose run the store fails (0: none);
\* a failed run changes nothing, and with stop the process dies there.
RECURSIVE SqRunAll(_, _, _, _, _, _, _, _)
SqRunAll(table, deviceId, items, t, rs, failAt, stop, i) ==
    IF i > Len(items) \/ (stop /\ i = failAt) THEN table
    ELSE SqRunAll(IF i = failAt THEN table
                  ELSE InsertOrReplace(table, "id", SqLogRow(items[i], deviceId, t, rs[i])),
                  deviceId, items, t, rs, failAt, stop, i + 1)

\* the filter and the update document of one bulkWrite operation
MgLogFilterId(log, coll, t) == IF FalsyText(log.id) THEN MgSynthId(coll, t) ELSE log.id
MgLogUpdate(log, deviceId, t) ==
    [id |-> log.id,
     deviceId |-> deviceId,
     phoneNumber |-> log.phoneNumber,
     contactName |-> log.contactName,
     callType |-> log.callType,
     callDate |-> log.callDate,
     callDuration |-> log.callDuration,
     timestamp |-> IF FalsyInt(log.timestamp) THEN t ELSE log.timestamp]

\* CallLog.bulkWrite(bulkOps), ordered: the operations are applied in order
\* and the first one that fails ends the write and makes bulkWrite throw: the
\* one the store fails (failAt, 0: none) or one that meets a duplicate key.
\* failed is the operation that failed, 0 if none did.
RECURSIVE MgBulkWrite(_, _, _, _, _, _)
MgBulkWrite(coll, deviceId, items, t, failAt, i) ==
    IF i > Len(items) THEN [coll |-> coll, failed |-> 0]
    ELSE LET filterId == MgLogFilterId(items[i], coll, t)
             update == MgLogUpdate(items[i], deviceId, t)
         IN IF i = failAt \/ DuplicateKey(coll, "id", filterId, update, TRUE, BlankCallLog)
            THEN [coll |-> coll, failed |-> i]
            ELSE MgBulkWrite(UpdateOne(coll, "id", filterId, update, TRUE, BlankCallLog),
                             deviceId, items, t, failAt, i + 1)

\* POST /api/call-logs/sync. A failed stmt.run has no callback to report to:
\* node-sqlite3 emits 'error' on the statement, which has no listener, so the
\* process either dies there (crash) or goes on to stmt.finalize, whose
\* callback is never given an error.
SqSync(body, rs, failAt, crash) ==
    IF NotValue(body.callLogs) \/ ~IsArray(body.callLogs)
    THEN /\ sqRes' = [route |-> "sync", status |-> 400, req |-> body, error |-> TRUE]
         /\ UNCHANGED <<sqDevices, sqCallLogs, sqCrashed>>
    ELSE /\ sqCallLogs' = SqRunAll(sqCallLogs, body.deviceId, body.callLogs.items,
                                   now, rs, failAt, crash, 1)
         /\ sqCrashed' = (crash /\ failAt # 0)
         /\ sqRes' = IF crash /\ failAt # 0
                     THEN [route |-> "sync", status |-> 0, req |-> body, failAt |-> failAt]
                     ELSE [route |-> "sync", status |-> 200, req |-> body, failAt |-> failAt,
                           count |-> Len(body.callLogs.items)]
         /\ UNCHANGED sqDevices

MgSync(body, failAt) ==
    IF ~IsArray(body.callLogs)
    THEN /\ mgRes' = [route |-> "sync", status |-> 400, req |-> body, error |-> TRUE]
         /\ UNCHANGED <<mgDevices, mgCallLogs>>
    ELSE LET written == MgBulkWrite(mgCallLogs, body.deviceId, body.callLogs.items,
                                    now, failAt, 1)
         IN /\ mgCallLogs' = written.coll
            /\ mgRes' = IF written.failed # 0
                        THEN [route |-> "sync", status |-> 500, req |-> body,
                              failAt |-> written.failed, error |-> TRUE]
                        ELSE [route |-> "sync", status |-> 200, req |-> body, failAt |-> 0,
                              count |-> Len(body.callLogs.items)]
            /\ UNCHANGED mgDevices

\* POST /api/call-logs: db.run reports a failure of the store to its callback
SqAddCallLog(body, r, fail) ==
    IF fail
    THEN /\ sqRes' = [route |-> "add", status |-> 500, req |-> body, error |-> TRUE]
         /\ UNCHANGED <<sqDevices, sqCallLogs, sqCrashed>>
    ELSE /\ sqCallLogs' = InsertOrReplace(sqCallLogs, "id", SqLogRow(body, body.deviceId, now, r))
         /\ sqRes' = [route |-> "add", status |-> 201, req |-> body]
         /\ UNCHANGED <<sqDevices, sqCrashed>>

\* a method and path the Mongo server declares no route for: Express answers 404
MgNotFound(route, req) ==
    /\ mgRes' = [route |-> route, status |-> 404, req |-> req]
    /\ UNCHANGED <<mgDevices, mgCallLogs>>

----------------------------------------------------------------------------
(* Query engine *)

DefaultLimit == 100

\* parseInt(s) of a decimal numeral s; the default limit is the number itself
ParseInt(s) == CHOOSE n \in 0..DefaultLimit : ToString(n) = s
LimitOf(limit) == IF limit = Null THEN DefaultLimit ELSE ParseInt(limit)

\* a WHERE clause whose start bound is exclusive
SqWhereExclusive(q, r) ==
    /\ FalsyText(q.deviceId) \/ r.deviceId = q.deviceId
    /\ FalsyText(q.phoneNumber) \/ r.phoneNumber = q.phoneNumber
    /\ FalsyText(q.callType) \/ r.callType = q.callType
    /\ FalsyText(q.startDate)
          \/ (r.callDate # NullInt /\ r.callDate > ParseInt(q.startDate))
    /\ FalsyText(q.endDate)
          \/ (r.callDate # NullInt /\ r.callDate <= ParseInt(q.endDate))

\* WHERE 1=1 AND ... : one conjunct for each truthy parameter
SqWhere(q, r) ==
    /\ FalsyText(q.deviceId) \/ r.deviceId = q.deviceId
    /\ FalsyText(q.phoneNumber) \/ r.phoneNumber = q.phoneNumber
    /\ FalsyText(q.callType) \/ r.callType = q.callType
    /\ FalsyText(q.startDate)
          \/ (r.callDate # NullInt /\ r.callDate >= ParseInt(q.startDate))
    /\ FalsyText(q.endDate)
          \/ (r.callDate # NullInt /\ r.callDate <= ParseInt(q.endDate))

\* the filter object of CallLog.find: one key for each truthy parameter
MgFilter(q, r) ==
    /\ FalsyText(q.deviceId) \/ r.deviceId = q.deviceId
    /\ FalsyText(q.phoneNumber) \/ r.phoneNumber = q.phoneNumber
    /\ FalsyText(q.callType) \/ r.callType = q.callType
    /\ (FalsyText(q.startDate) /\ FalsyText(q.endDate))
          \/ /\ FalsyText(q.startDate)
                   \/ (r.callDate # NullInt /\ r.callDate >= ParseInt(q.startDate))
             /\ FalsyText(q.endDate)
                   \/ (r.callDate # NullInt /\ r.callDate <= ParseInt(q.endDate))

\* FROM call_logs cl LEFT JOIN devices d ON cl.device_id = d.device_id
LeftJoinDevices(logs, devices) ==
    UNION { LET ds == {d \in devices : d.deviceId = r.deviceId /\ r.deviceId # Null} IN
            IF ds = {}
            THEN {[log |-> r, deviceName |-> Null, devicePhone |-> Null]}
            ELSE {[log |-> r, deviceName |-> d.deviceName, devicePhone |-> d.phoneNumber] :
                      d \in ds}
          : r \in logs }

\* cl.call_date of a row of the join (joined), callDate of a document
RowDate(row, joined) == IF joined THEN row.log.callDate ELSE row.callDate

\* ORDER BY cl.call_date DESC / sort({callDate: -1}): every listing of the rows
\* in non-increasing date order (NULL sorts last; the order of equal dates
\* is open)
OrderByDateDesc(rows, joined) ==
    LET n == Cardinality(rows) IN
    { s \in [1..n -> rows] :
        /\ \A i, j \in 1..n : i # j => s[i] # s[j]
        /\ \A i \in 1..n, j \in 1..n :
              i < j => RowDate(s[i], joined) >= RowDate(s[j], joined) }

Take(s, n) == IF n < Len(s) THEN SubSeq(s, 1, n) ELSE s

\* LIMIT n: a negative n is no limit
SqLimit(s, n) == IF n < 0 THEN s ELSE Take(s, n)

\* limit(n): 0 is no limit, a negative n limits to -n
MgLimit(s, n) == IF n = 0 THEN s ELSE IF n < 0 THEN Take(s, 0 - n) ELSE Take(s, n)


\* GET /api/call-logs
SqGetCallLogs(q) ==
    /\ \E rows \in OrderByDateDesc(
                      {j \in LeftJoinDevices(sqCallLogs, sqDevices) : SqWhere(q, j.log)},
                      TRUE) :
          LET answer == SqLimit(rows, LimitOf(q.limit)) IN
          sqRes' = [route |-> "getCallLogs", status |-> 200, req |-> q,
                    callLogs |-> [i \in DOMAIN answer |-> answer[i].log],
                    joined |-> answer, count |-> Len(answer)]
    /\ UNCHANGED <<sqDevices, sqCallLogs, sqCrashed>>

MgGetCallLogs(q) ==
    /\ \E rows \in OrderByDateDesc({r \in mgCallLogs : MgFilter(q, r)}, FALSE) :
          LET answer == MgLimit(rows, LimitOf(q.limit)) IN
          mgRes' = [route |-> "getCallLogs", status |-> 200, req |-> q,
                    callLogs |-> answer, count |-> Len(answer)]
    /\ UNCHANGED <<mgDevices, mgCallLogs>>

\* GET /api/call-logs/number/:phoneNumber
SqGetCallLogsByNumber(q) ==
    /\ \E rows \in OrderByDateDesc(
                      {j \in LeftJoinDevices(sqCallLogs, sqDevices) :
                            j.log.phoneNumber = q.phoneNumber},
                      TRUE) :
          LET answer == SqLimit(rows, LimitOf(q.limit)) IN
          sqRes' = [route |-> "getCallLogsByNumber", status |-> 200, req |-> q,
                    phoneNumber |-> q.phoneNumber,
                    callLogs |-> [i \in DOMAIN answer |-> answer[i].log],
                    joined |-> answer, count |-> Len(answer)]
    /\ UNCHANGED <<sqDevices, sqCallLogs, sqCrashed>>

----------------------------------------------------------------------------
(* Statistics engine *)

\* SELECT COUNT(*) / countDocuments()
Count(rows) == Cardinality(rows)

\* GROUP BY call_type / $group by "$callType": one group for each value, NULL included
CallsByType(logs) ==
    { [callType |-> t, count |-> Cardinality({r \in logs : r.callType = t})] :
        t \in {r.callType : r \in logs} }

\* LIMIT 10 / { $limit: 10 }
TopLimit == 10

\* GROUP BY phone_number / $group by "$phoneNumber": the grouping values, NULL included
PhoneNumbers(logs) == {r.phoneNumber : r \in logs}

\* COUNT(*) / { $sum: 1 } of the group of phone number p
ContactCount(logs, p) == Cardinality({r \in logs : r.phoneNumber = p})

\* contact_name, a bare column of the grouped SELECT / { $first: "$contactName" }
\* with no sort before the $group: the name of some row of the group
ContactNames(logs, p) == {r.contactName : r \in {l \in logs : l.phoneNumber = p}}

\* the same query ordered by count ascending
RECURSIVE TopContactsAscending(_, _, _)
TopContactsAscending(logs, phones, n) ==
    IF phones = {} \/ n = 0 THEN {<<>>}
    ELSE LET least == {p \in phones : \A q \in phones :
                          ContactCount(logs, p) <= ContactCount(logs, q)}
         IN UNION { { <<[phoneNumber |-> p, contactName |-> name,
                         count |-> ContactCount(logs, p)]>> \o rest :
                        name \in ContactNames(logs, p),
                        rest \in TopContactsAscending(logs, phones \ {p}, n - 1) } :
                    p \in least }

\* SELECT phone_number, contact_name, COUNT(*) as count FROM call_logs
\* GROUP BY phone_number ORDER BY count DESC LIMIT n / $group, $sort {count: -1},
\* $limit n, over the groups of phones: every listing the query can answer
\* with (the order of equal counts is open, and so is which of them the
\* limit cuts off)
RECURSIVE TopContacts(_, _, _)
TopContacts(logs, phones, n) ==
    IF phones = {} \/ n = 0 THEN {<<>>}
    ELSE LET most == {p \in phones : \A q \in phones :
                         ContactCount(logs, p) >= ContactCount(logs, q)}
         IN UNION { { <<[phoneNumber |-> p, contactName |-> name,
                         count |-> ContactCount(logs, p)]>> \o rest :
                        name \in ContactNames(logs, p),
                        rest \in TopContacts(logs, phones \ {p}, n - 1) } :
                    p \in most }

\* GET /api/statistics, its queries run with no other request in between
SqStatistics ==
    /\ \E top \in TopContacts(sqCallLogs, PhoneNumbers(sqCallLogs), TopLimit) :
          sqRes' = [route |-> "statistics", status |-> 200,
                    totalDevices |-> Count(sqDevices),
                    totalCallLogs |-> Count(sqCallLogs),
                    callsByType |-> CallsByType(sqCallLogs),
                    topContacts |-> top]
    /\ UNCHANGED <<sqDevices, sqCallLogs, sqCrashed>>

MgStatistics ==
    /\ \E top \in TopContacts(mgCallLogs, PhoneNumbers(mgCallLogs), TopLimit) :
          mgRes' = [route |-> "statistics", status |-> 200,
                    totalDevices |-> Count(mgDevices),
                    totalCallLogs |-> Count(mgCallLogs),
                    callsByType |-> CallsByType(mgCallLogs),
                    topContacts |-> top]
    /\ UNCHANGED <<mgDevices, mgCallLogs>>

----------------------------------------------------------------------------
(* Requests, served one at a time by the running servers *)

Sq == "sqlite" \in running
Mg == "mongo" \in running

Idle ==
    /\ Sq => sqRes = NoResponse /\ ~sqCrashed
    /\ Mg => mgRes = NoResponse

Register(bodies) ==
    \E body \in bodies :
        /\ Idle
        /\ IF Sq THEN SqRegister(body) ELSE UNCHANGED sqVars
        /\ IF Mg THEN MgRegister(body) ELSE UNCHANGED mgVars
        /\ UNCHANGED <<now, running, omitUndefined, concVars>>

\* where the store can fail, it fails at most one write of a request (failAt)
Sync(bodies, canFail) ==
    \E body \in bodies :
      \E rs \in [1..Len(body.callLogs.items) -> 0..(RandomRange - 1)],
         failAt \in 0..Len(body.callLogs.items), crash \in BOOLEAN :
        /\ Idle
        /\ ~canFail => failAt = 0
        /\ Cardinality(sqCallLogs) + Len(body.callLogs.items) <= MaxLogs
        /\ Cardinality(mgCallLogs) + Len(body.callLogs.items) <= MaxLogs
        /\ crash => Sq /\ failAt # 0
        /\ \A i \in DOMAIN rs : (~Sq \/ ~FalsyText(body.callLogs.items[i].id)) => rs[i] = 0
        /\ IF Sq THEN SqSync(body, rs, failAt, crash) ELSE UNCHANGED sqVars
        /\ IF Mg THEN MgSync(body, failAt) ELSE UNCHANGED mgVars
        /\ UNCHANGED <<now, running, omitUndefined, concVars>>

AddCallLog(bodies, canFail) ==
    \E body \in bodies, r \in 0..(RandomRange - 1), fail \in BOOLEAN :
        /\ Idle
        /\ ~canFail => ~fail
        /\ Cardinality(sqCallLogs) < MaxLogs
        /\ (~Sq \/ ~FalsyText(body.id)) => r = 0
        /\ fail => Sq
        /\ IF Sq THEN SqAddCallLog(body, r, fail) ELSE UNCHANGED sqVars
        /\ IF Mg THEN MgNotFound("add", body) ELSE UNCHANGED mgVars
        /\ UNCHANGED <<now, running, omitUndefined, concVars>>

GetCallLogs(queries) ==
    \E q \in queries :
        /\ Idle
        /\ IF Sq THEN SqGetCallLogs(q) ELSE UNCHANGED sqVars
        /\ IF Mg THEN MgGetCallLogs(q) ELSE UNCHANGED mgVars
        /\ UNCHANGED <<now, running, omitUndefined, concVars>>

GetCallLogsByNumber(queries) ==
    \E q \in queries :
        /\ Idle
        /\ IF Sq THEN SqGetCallLogsByNumber(q) ELSE UNCHANGED sqVars
        /\ IF Mg THEN MgNotFound("getCallLogsByNumber", q) ELSE UNCHANGED mgVars
        /\ UNCHANGED <<now, running, omitUndefined, concVars>>

Statistics ==
    /\ Idle
    /\ IF Sq THEN SqStatistics ELSE UNCHANGED sqVars
    /\ IF Mg THEN MgStatistics ELSE UNCHANGED mgVars
    /\ UNCHANGED <<now, running, omitUndefined, concVars>>

Heartbeat(bodies) ==
    \E body \in bodies :
        /\ Idle
        /\ IF Sq THEN SqHeartbeat(body) ELSE UNCHANGED sqVars
        /\ IF Mg THEN MgHeartbeat(body) ELSE UNCHANGED mgVars
        /\ UNCHANGED <<now, running, omitUndefined, concVars>>

GetDevices ==
    /\ Idle
    /\ IF Sq THEN SqGetDevices ELSE UNCHANGED sqVars
    /\ IF Mg THEN MgGetDevices ELSE UNCHANGED mgVars
    /\ UNCHANGED <<now, running, omitUndefined, concVars>>

ClearDb(canFail) ==
    \E failAt \in 0..2, crash \in BOOLEAN :
        /\ Idle
        /\ ~canFail => failAt = 0
        /\ crash => Sq /\ failAt # 0
        /\ ~Sq => failAt = 0
        /\ IF Sq THEN SqClearDb(failAt, crash) ELSE UNCHANGED sqVars
        /\ IF Mg THEN MgNotFound("clearDb", failAt) ELSE UNCHANGED mgVars
        /\ UNCHANGED <<now, running, omitUndefined, concVars>>

\* the response has gone out; the servers keep nothing of the request
Done ==
    /\ (Sq /\ sqRes # NoResponse) \/ (Mg /\ mgRes # NoResponse)
    /\ sqRes' = NoResponse
    /\ mgRes' = NoResponse
    /\ UNCHANGED <<now, running, omitUndefined, sqDevices, sqCallLogs, sqCrashed, mgDevices, mgCallLogs, concVars>>

\* the server clock advances between requests
Tick ==
    /\ Idle
    /\ now < MaxNow
    /\ now' = now + 1
    /\ UNCHANGED <<running, omitUndefined, sqVars, mgVars, concVars>>

----------------------------------------------------------------------------
(* Specifications *)

\* the servers start on empty stores
InitStores ==
    /\ now = 1
    /\ sqDevices = {}
    /\ sqCallLogs = {}
    /\ sqRes = NoResponse
    /\ sqCrashed = FALSE
    /\ mgDevices = {}
    /\ mgCallLogs = {}
    /\ mgRes = NoResponse
    /\ dbQueue = <<>>
    /\ stats = NoStats
    /\ cleared = FALSE

Init ==
    /\ running \in {{"sqlite"}, {"mongo"}}
    /\ omitUndefined \in (IF running = {"mongo"} THEN BOOLEAN ELSE {TRUE})
    /\ InitStores

Next ==
    \/ Tick
    \/ Register({RegisterFull})
    \/ Sync(SyncBodies, TRUE)
    \/ AddCallLog(AddBodies, TRUE)
    \/ GetCallLogs(Queries)
    \/ GetCallLogsByNumber(NumberQueries)
    \/ Statistics
    \/ ClearDb(TRUE)
    \/ Done

Spec == Init /\ [][Next]_vars

\* both servers running, fed the same requests
PairInit ==
    /\ running = {"sqlite", "mongo"}
    /\ omitUndefined \in BOOLEAN
    /\ InitStores

PairNext ==
    \/ Tick
    \/ Register(RegisterBodies)
    \/ Heartbeat(HeartbeatBodies)
    \/ GetDevices
    \/ AddCallLog(AddBodiesNoId, FALSE)
    \/ Sync(SyncBodiesNoId, FALSE)
    \/ GetCallLogs(FewQueries)
    \/ GetCallLogsByNumber(NumberQueries)
    \/ Statistics
    \/ ClearDb(FALSE)
    \/ Done

PairSpec == PairInit /\ [][PairNext]_vars

----------------------------------------------------------------------------
(* One server, stores with many phone numbers *)

\* call log k of phone number i; the first phone number is absent, and the
\* second call log of the second one names the contact otherwise
ContactPhone(i) == IF i = 1 THEN Null ELSE ToString(i)
ContactLog(i, k) ==
    [id |-> "c" \o ToString(i) \o "_" \o ToString(k),
     phoneNumber |-> ContactPhone(i),
     contactName |-> IF i = 2 /\ k = 2 THEN Null ELSE "n" \o ToString(i),
     callType |-> "missed", callDate |-> i, callDuration |-> k, timestamp |-> 1]

\* the number of call logs of phone number i in a batch: 1, 1, 1, 2, 2, 2, 3, ...
LogsOfPhone(i) == (i + 2) \div 3

\* the batch for the phone numbers 1..i, its call logs from k down for phone number i
RECURSIVE ContactBatch(_, _)
ContactBatch(i, k) ==
    IF i = 0 THEN <<>>
    ELSE IF k = 0 THEN ContactBatch(i - 1, LogsOfPhone(i - 1))
    ELSE <<ContactLog(i, k)>> \o ContactBatch(i, k - 1)

ContactBodies ==
    { [deviceId |-> "A1", callLogs |-> Array(ContactBatch(n, LogsOfPhone(n)))] :
        n \in 0..NumPhones }

\* POST /api/call-logs/sync of a batch whose call logs all carry an id (no
\* random number is drawn), the store failing no write
SyncBatch(bodies) ==
    \E body \in bodies :
        /\ Idle
        /\ \A i \in 1..Len(body.callLogs.items) : ~FalsyText(body.callLogs.items[i].id)
        /\ IF Sq THEN SqSync(body, [i \in 1..Len(body.callLogs.items) |-> 0], 0, FALSE)
                 ELSE UNCHANGED sqVars
        /\ IF Mg THEN MgSync(body, 0) ELSE UNCHANGED mgVars
        /\ UNCHANGED <<now, running, omitUndefined, concVars>>

TopNext ==
    \/ SyncBatch(ContactBodies)
    \/ Statistics
    \/ Done

TopSpec == Init /\ [][TopNext]_vars

----------------------------------------------------------------------------
(* The SQLite server with requests in flight together *)

\* requests of this specification
ConcSyncBodies == [deviceId : {"A1"}, callLogs : {Array(<<LogFull>>), Array(<<LogFull, LogY>>)}]
ConcAddBodies == {AddBody(LogZ, "B2")}
ConcQueries == {q \in FilterCombinations :
                    /\ q.deviceId = Null /\ q.phoneNumber = Null /\ q.callType = Null
                    /\ q.startDate = Null /\ q.endDate = Null}
ConcNumberQueries == [phoneNumber : {"555"}, limit : {Null}]

\* a handler may start when no response is on its way out and the process lives
Serving == "sqlite" \in running /\ sqRes = NoResponse /\ ~sqCrashed

Schedule(statements) == dbQueue' = dbQueue \o statements
Room(n) == Len(dbQueue) + n <= MaxQueue

\* POST /api/devices/register: db.run(sql, [...], callback)
ReqRegister(bodies) ==
    \E body \in bodies :
        /\ Serving /\ Room(1)
        /\ Schedule(<<[op |-> "registerRun", req |-> body,
                       row |-> [deviceId |-> body.deviceId, deviceName |-> body.deviceName,
                                phoneNumber |-> body.phoneNumber,
                                registeredAt |-> body.registeredAt,
                                lastHeartbeat |-> now]]>>)
        /\ cleared' = FALSE
        /\ UNCHANGED <<now, running, omitUndefined, sqVars, mgVars, stats>>

\* POST /api/call-logs/sync: db.prepare, one stmt.run for each call log, stmt.finalize
ReqSync(bodies) ==
    \E body \in bodies :
      \E rs \in [1..Len(body.callLogs.items) -> 0..(RandomRange - 1)] :
        /\ Serving /\ Room(Len(body.callLogs.items) + 1)
        /\ Cardinality(sqCallLogs) + Len(body.callLogs.items) <= MaxLogs
        /\ \A i \in DOMAIN rs : ~FalsyText(body.callLogs.items[i].id) => rs[i] = 0
        /\ IF NotValue(body.callLogs) \/ ~IsArray(body.callLogs)
           THEN /\ sqRes' = [route |-> "sync", status |-> 400, req |-> body, error |-> TRUE]
                /\ UNCHANGED <<dbQueue, cleared>>
           ELSE /\ cleared' = FALSE
                /\ Schedule([i \in 1..Len(body.callLogs.items) |->
                                [op |-> "syncRun",
                                 row |-> SqLogRow(body.callLogs.items[i], body.deviceId,
                                                  now, rs[i])]]
                            \o <<[op |-> "syncFinalize", req |-> body,
                                  count |-> Len(body.callLogs.items)]>>)
                /\ UNCHANGED sqRes
        /\ UNCHANGED <<now, running, omitUndefined, sqDevices, sqCallLogs, sqCrashed, mgVars, stats>>

\* POST /api/call-logs: db.run(sql, [...], callback)
ReqAddCallLog(bodies) ==
    \E body \in bodies, r \in 0..(RandomRange - 1) :
        /\ Serving /\ Room(1)
        /\ Cardinality(sqCallLogs) < MaxLogs
        /\ ~FalsyText(body.id) => r = 0
        /\ Schedule(<<[op |-> "addRun", req |-> body,
                       row |-> SqLogRow(body, body.deviceId, now, r)]>>)
        /\ cleared' = FALSE
        /\ UNCHANGED <<now, running, omitUndefined, sqVars, mgVars, stats>>

\* GET /api/devices: db.all(sql, [], callback)
ReqGetDevices ==
    /\ Serving /\ Room(1)
    /\ Schedule(<<[op |-> "allDevices", afterClear |-> cleared]>>)
    /\ UNCHANGED <<now, running, omitUndefined, sqVars, mgVars, stats, cleared>>

\* GET /api/call-logs: db.all(sql, params, callback)
ReqGetCallLogs(queries) ==
    \E q \in queries :
        /\ Serving /\ Room(1)
        /\ Schedule(<<[op |-> "allCallLogs", req |-> q, afterClear |-> cleared]>>)
        /\ UNCHANGED <<now, running, omitUndefined, sqVars, mgVars, stats, cleared>>

\* GET /api/call-logs/number/:phoneNumber: db.all(sql, [...], callback)
ReqGetCallLogsByNumber(queries) ==
    \E q \in queries :
        /\ Serving /\ Room(1)
        /\ Schedule(<<[op |-> "allByNumber", req |-> q, afterClear |-> cleared]>>)
        /\ UNCHANGED <<now, running, omitUndefined, sqVars, mgVars, stats, cleared>>

\* GET /api/statistics: const stats = {}; the first db.get (one such request at a time)
ReqStatistics ==
    /\ Serving /\ Room(1)
    /\ stats = NoStats
    /\ stats' = [step |-> "totalDevices", afterClear |-> cleared]
    /\ Schedule(<<[op |-> "countDevices"]>>)
    /\ UNCHANGED <<now, running, omitUndefined, sqVars, mgVars, cleared>>

\* DELETE /api/admin/clear-db: db.serialize schedules the two deletes, then
\* res.json answers before either has run
ReqClearDb ==
    /\ Serving /\ Room(2)
    /\ Schedule(<<[op |-> "deleteCallLogs"], [op |-> "deleteDevices"]>>)
    /\ sqRes' = [route |-> "clearDb", status |-> 200]
    /\ cleared' = TRUE
    /\ UNCHANGED <<now, running, omitUndefined, sqDevices, sqCallLogs, sqCrashed, mgVars, stats>>

\* the connection runs the oldest scheduled statement and calls its callback.
\* fail: the store fails the statement (taken for the two deletes, which have
\* no callback: the failure is reported to nobody)
DbStep ==
    \E fail \in BOOLEAN :
      LET st == Head(dbQueue) IN
      /\ Serving
      /\ dbQueue # <<>>
      /\ fail => st.op \in {"deleteCallLogs", "deleteDevices"}
      /\ CASE st.op = "registerRun" ->
                /\ sqDevices' = InsertOrReplace(sqDevices, "deviceId", st.row)
                /\ sqRes' = [route |-> "register", status |-> 200, req |-> st.req]
                /\ dbQueue' = Tail(dbQueue)
                /\ UNCHANGED <<sqCallLogs, stats>>
           [] st.op = "syncRun" ->
                /\ sqCallLogs' = InsertOrReplace(sqCallLogs, "id", st.row)
                /\ dbQueue' = Tail(dbQueue)
                /\ UNCHANGED <<sqDevices, sqRes, stats>>
           [] st.op = "syncFinalize" ->
                /\ sqRes' = [route |-> "sync", status |-> 200, req |-> st.req,
                             failAt |-> 0, count |-> st.count]
                /\ dbQueue' = Tail(dbQueue)
                /\ UNCHANGED <<sqDevices, sqCallLogs, stats>>
           [] st.op = "addRun" ->
                /\ sqCallLogs' = InsertOrReplace(sqCallLogs, "id", st.row)
                /\ sqRes' = [route |-> "add", status |-> 201, req |-> st.req]
                /\ dbQueue' = Tail(dbQueue)
                /\ UNCHANGED <<sqDevices, stats>>
           [] st.op = "deleteCallLogs" ->
                /\ sqCallLogs' = IF fail THEN sqCallLogs ELSE {}
                /\ dbQueue' = Tail(dbQueue)
                /\ UNCHANGED <<sqDevices, sqRes, stats>>
           [] st.op = "deleteDevices" ->
                /\ sqDevices' = IF fail THEN sqDevices ELSE {}
                /\ dbQueue' = Tail(dbQueue)
                /\ UNCHANGED <<sqCallLogs, sqRes, stats>>
           [] st.op = "allDevices" ->
                /\ \E rows \in OrderByRegisteredAtDesc(sqDevices) :
                      sqRes' = [route |-> "getDevices", status |-> 200, devices |-> rows,
                                afterClear |-> st.afterClear]
                /\ dbQueue' = Tail(dbQueue)
                /\ UNCHANGED <<sqDevices, sqCallLogs, stats>>
           [] st.op = "allCallLogs" ->
                /\ \E rows \in OrderByDateDesc(
                          {j \in LeftJoinDevices(sqCallLogs, sqDevices) : SqWhere(st.req, j.log)},
                          TRUE) :
                      LET answer == SqLimit(rows, LimitOf(st.req.limit)) IN
                      sqRes' = [route |-> "getCallLogs", status |-> 200, req |-> st.req,
                                callLogs |-> [i \in DOMAIN answer |-> answer[i].log],
                                joined |-> answer, count |-> Len(answer),
                                afterClear |-> st.afterClear]
                /\ dbQueue' = Tail(dbQueue)
                /\ UNCHANGED <<sqDevices, sqCallLogs, stats>>
           [] st.op = "allByNumber" ->
                /\ \E rows \in OrderByDateDesc(
                          {j \in LeftJoinDevices(sqCallLogs, sqDevices) :
                                j.log.phoneNumber = st.req.phoneNumber},
                          TRUE) :
                      LET answer == SqLimit(rows, LimitOf(st.req.limit)) IN
                      sqRes' = [route |-> "getCallLogsByNumber", status |-> 200, req |-> st.req,
                                phoneNumber |-> st.req.phoneNumber,
                                callLogs |-> [i \in DOMAIN answer |-> answer[i].log],
                                joined |-> answer, count |-> Len(answer),
                                afterClear |-> st.afterClear]
                /\ dbQueue' = Tail(dbQueue)
                /\ UNCHANGED <<sqDevices, sqCallLogs, stats>>
           [] st.op = "countDevices" ->
                /\ stats' = [step |-> "totalCallLogs", afterClear |-> stats.afterClear,
                             totalDevices |-> Count(sqDevices)]
                /\ dbQueue' = Tail(dbQueue) \o <<[op |-> "countCallLogs"]>>
                /\ UNCHANGED <<sqDevices, sqCallLogs, sqRes>>
           [] st.op = "countCallLogs" ->
                /\ stats' = [step |-> "callsByType", afterClear |-> stats.afterClear,
                             totalDevices |-> stats.totalDevices,
                             totalCallLogs |-> Count(sqCallLogs)]
                /\ dbQueue' = Tail(dbQueue) \o <<[op |-> "groupByType"]>>
                /\ UNCHANGED <<sqDevices, sqCallLogs, sqRes>>
           [] st.op = "groupByType" ->
                /\ stats' = [step |-> "topContacts", afterClear |-> stats.afterClear,
                             totalDevices |-> stats.totalDevices,
                             totalCallLogs |-> stats.totalCallLogs,
                             callsByType |-> CallsByType(sqCallLogs)]
                /\ dbQueue' = Tail(dbQueue) \o <<[op |-> "topContacts"]>>
                /\ UNCHANGED <<sqDevices, sqCallLogs, sqRes>>
           [] st.op = "topContacts" ->
                /\ \E top \in TopContacts(sqCallLogs, PhoneNumbers(sqCallLogs), TopLimit) :
                      sqRes' = [route |-> "statistics", status |-> 200,
                                totalDevices |-> stats.totalDevices,
                                totalCallLogs |-> stats.totalCallLogs,
                                callsByType |-> stats.callsByType,
                                topContacts |-> top,
                                afterClear |-> stats.afterClear]
                /\ stats' = NoStats
                /\ dbQueue' = Tail(dbQueue)
                /\ UNCHANGED <<sqDevices, sqCallLogs>>
      /\ UNCHANGED <<now, running, omitUndefined, sqCrashed, mgVars, cleared>>

\* the response has gone out
ConcDone ==
    /\ sqRes # NoResponse
    /\ sqRes' = NoResponse
    /\ UNCHANGED <<now, running, omitUndefined, sqDevices, sqCallLogs, sqCrashed, mgVars, concVars>>

ConcInit ==
    /\ running = {"sqlite"}
    /\ omitUndefined = TRUE
    /\ InitStores

ConcNext ==
    \/ ReqRegister({RegisterFull})
    \/ ReqSync(ConcSyncBodies)
    \/ ReqAddCallLog(ConcAddBodies)
    \/ ReqGetDevices
    \/ ReqGetCallLogs(ConcQueries)
    \/ ReqGetCallLogsByNumber(ConcNumberQueries)
    \/ ReqStatistics
    \/ ReqClearDb
    \/ DbStep
    \/ ConcDone

ConcSpec == ConcInit /\ [][ConcNext]_vars

----------------------------------------------------------------------------
(* Properties *)

Servers == {"sqlite", "mongo"}
Res(s) == IF s = "sqlite" THEN sqRes ELSE mgRes
Logs(s) == IF s = "sqlite" THEN sqCallLogs ELSE mgCallLogs
Devices(s) == IF s = "sqlite" THEN sqDevices ELSE mgDevices

\* the record a submitted call log stands for: the batch's deviceId stamped on
\* it, the server's time for an absent timestamp
Submitted(log, deviceId) ==
    [id |-> log.id, deviceId |-> deviceId, phoneNumber |-> log.phoneNumber,
     contactName |-> log.contactName, callType |-> log.callType,
     callDate |-> log.callDate, callDuration |-> log.callDuration,
     timestamp |-> IF log.timestamp = NullInt THEN now ELSE log.timestamp]

\* item i is the last one of the batch with its id
LastWithId(items, i) == \A j \in (i + 1)..Len(items) : items[j].id # items[i].id

\* no two stored call logs share an id
C1_OnePerId ==
    \A s \in running : \A r1, r2 \in Logs(s) : r1.id = r2.id => r1 = r2
\* the answered sync or add left its records in the store as submitted
C1_Replaced(s) ==
    /\ (Res(s).route = "sync" /\ Res(s).status = 200 /\ Res(s).failAt = 0) =>
          LET items == Res(s).req.callLogs.items IN
          \A i \in 1..Len(items) :
              (items[i].id # Null /\ LastWithId(items, i)) =>
                  Submitted(items[i], Res(s).req.deviceId) \in Logs(s)
    /\ (Res(s).route = "add" /\ Res(s).status = 201 /\ Res(s).req.id # Null) =>
          Submitted(Res(s).req, Res(s).req.deviceId) \in Logs(s)
\* C1: a store holds at most one call log per id, and once a sync or an add
\* that the store applied has been answered, the record stored under each
\* submitted id is the submission itself, every field of it, absent ones included.
C1_UpsertReplacesWhole == C1_OnePerId /\ \A s \in running : C1_Replaced(s)

\* C2: a store holds at most one device per deviceId, and once a registration
\* has been answered the device's deviceName, phoneNumber and registeredAt
\* are those of that registration, absent ones included.
C2_RegisterReplaces ==
    \A s \in running :
        /\ \A d1, d2 \in Devices(s) : d1.deviceId = d2.deviceId => d1 = d2
        /\ (Res(s).route = "register" /\ Res(s).status = 200) =>
              \E d \in Devices(s) :
                  /\ d.deviceId = Res(s).req.deviceId
                  /\ d.deviceName = Res(s).req.deviceName
                  /\ d.phoneNumber = Res(s).req.phoneNumber
                  /\ d.registeredAt = Res(s).req.registeredAt

AllLackId(items) == \A i \in 1..Len(items) : items[i].id = Null
C3_Step(res, resNext, logs, logsNext) ==
    (/\ res = NoResponse /\ resNext.route = "sync" /\ resNext.status = 200
     /\ resNext.failAt = 0 /\ AllLackId(resNext.req.callLogs.items))
        => Cardinality(logsNext) = Cardinality(logs) + Len(resNext.req.callLogs.items)
\* C3: a sync of N records that all lack an id, every one applied by the
\* store, leaves N more records in the store than before: no synthesized id
\* repeats one of the batch or one of an earlier batch.
C3_SynthesizedIdsDistinct ==
    [][ /\ Sq => C3_Step(sqRes, sqRes', sqCallLogs, sqCallLogs')
        /\ Mg => C3_Step(mgRes, mgRes', mgCallLogs, mgCallLogs') ]_vars

\* C4: a sync of an array of N records is answered either with success, N
\* reported and no record failed by the store, or with status 500.
C4_SyncAllOrFailure ==
    \A s \in running :
        (Res(s).route = "sync" /\ Res(s).req.callLogs.kind = "array") =>
            \/ /\ Res(s).status = 200
               /\ Res(s).count = Len(Res(s).req.callLogs.items)
               /\ Res(s).failAt = 0
            \/ Res(s).status = 500

\* what is asked of one server's step from no response to a sync response
C5_Step(res, resNext, store, storeNext) ==
    (res = NoResponse /\ resNext.route = "sync") =>
        /\ resNext.req.callLogs.kind # "array" =>
              resNext.status = 400 /\ resNext.error /\ storeNext = store
        /\ resNext.req.callLogs = Array(<<>>) =>
              resNext.status = 200 /\ resNext.count = 0 /\ storeNext = store
\* C5: a sync whose callLogs is absent or no array is answered 400 with an
\* error body and changes neither devices nor call logs; a sync of an empty
\* array is answered with success and count 0 and changes neither.
C5_InvalidSyncRejected ==
    [][ /\ Sq => C5_Step(sqRes, sqRes', <<sqDevices, sqCallLogs>>, <<sqDevices', sqCallLogs'>>)
        /\ Mg => C5_Step(mgRes, mgRes', <<mgDevices, mgCallLogs>>, <<mgDevices', mgCallLogs'>>)
      ]_vars
\* a sync was answered 400 by a server whose store holds call logs
C5_Witness ==
    \E s \in running :
        /\ Res(s).route = "sync" /\ Res(s).status = 400
        /\ Logs(s) # {}

\* record r satisfies every filter field present in query q
Present(v) == v # Null
C6_Satisfies(q, r) ==
    /\ Present(q.deviceId) => r.deviceId = q.deviceId
    /\ Present(q.phoneNumber) => r.phoneNumber = q.phoneNumber
    /\ Present(q.callType) => r.callType = q.callType
    /\ Present(q.startDate) => r.callDate # NullInt /\ r.callDate >= ParseInt(q.startDate)
    /\ Present(q.endDate) => r.callDate # NullInt /\ r.callDate <= ParseInt(q.endDate)
Returned(res) == {res.callLogs[i] : i \in 1..Len(res.callLogs)}
\* C6: every record GET /api/call-logs returns satisfies every filter field
\* present in the request, the date bounds inclusive; and while the limit is
\* not reached every stored record that satisfies them is returned.
C6_FiltersConjunctive ==
    \A s \in running :
        (Res(s).route = "getCallLogs" /\ Res(s).status = 200) =>
            /\ \A r \in Returned(Res(s)) : r \in Logs(s) /\ C6_Satisfies(Res(s).req, r)
            /\ Len(Res(s).callLogs) < LimitOf(Res(s).req.limit) =>
                  \A r \in Logs(s) : C6_Satisfies(Res(s).req, r) => r \in Returned(Res(s))
\* a query by deviceId, callType and both date bounds, the bounds equal, was
\* answered with a record of that very date while the store also holds a record
\* of the device with another callType and a record of the callType with another date
C6_Witness ==
    \E s \in running :
        /\ Res(s).route = "getCallLogs"
        /\ Res(s).req.deviceId = "A1" /\ Res(s).req.callType = "missed"
        /\ Res(s).req.startDate = "2" /\ Res(s).req.endDate = "2"
        /\ \E r \in Returned(Res(s)) : r.callDate = 2
        /\ \E r \in Logs(s) : r.deviceId = "A1" /\ r.callType # "missed"
        /\ \E r \in Logs(s) : r.callType = "missed" /\ r.callDate = 3

\* the stored records the answered query asks for
C7_Matching(s) ==
    IF Res(s).route = "getCallLogs"
    THEN {r \in Logs(s) : C6_Satisfies(Res(s).req, r)}
    ELSE {r \in Logs(s) : r.phoneNumber = Res(s).req.phoneNumber}
\* C7: the answer of GET /api/call-logs and of GET /api/call-logs/number/...
\* holds at most limit records (100 without a limit parameter), in
\* non-increasing callDate order, none older than a matching record left
\* out, and count is the number of records returned.
C7_LimitAndOrder ==
    \A s \in running :
        (Res(s).route \in {"getCallLogs", "getCallLogsByNumber"} /\ Res(s).status = 200) =>
            LET a == Res(s).callLogs IN
            /\ Len(a) <= LimitOf(Res(s).req.limit)
            /\ \A i, j \in 1..Len(a) : i < j => a[i].callDate >= a[j].callDate
            /\ \A r \in C7_Matching(s) \ Returned(Res(s)) :
                  \A i \in 1..Len(a) : a[i].callDate >= r.callDate
            /\ Res(s).count = Len(a)

\* the sum of the counts of the groups
RECURSIVE SumCounts(_)
SumCounts(groups) ==
    IF groups = {} THEN 0
    ELSE LET g == CHOOSE g \in groups : TRUE IN g.count + SumCounts(groups \ {g})
\* C8: in every statistics response totalCallLogs is the number of call logs
\* stored and the counts of callsByType add up to totalCallLogs.
C8_StatisticsConsistent ==
    \A s \in running :
        (Res(s).route = "statistics" /\ Res(s).status = 200) =>
            /\ Res(s).totalCallLogs = Cardinality(Logs(s))
            /\ SumCounts(Res(s).callsByType) = Res(s).totalCallLogs

\* C9: the clear-db success response goes out only once nothing is stored,
\* and a GET request issued after it, with no write request in between, is
\* answered with empty collections and zero counts.
C9_ClearThenEmpty ==
    /\ (sqRes.route = "clearDb" /\ sqRes.status = 200) =>
          sqCallLogs = {} /\ sqDevices = {}
    /\ (sqRes.route = "getDevices" /\ sqRes.afterClear) => sqRes.devices = <<>>
    /\ (sqRes.route \in {"getCallLogs", "getCallLogsByNumber"} /\ sqRes.afterClear) =>
          sqRes.callLogs = <<>> /\ sqRes.count = 0
    /\ (sqRes.route = "statistics" /\ sqRes.afterClear) =>
          /\ sqRes.totalDevices = 0 /\ sqRes.totalCallLogs = 0
          /\ sqRes.callsByType = {}

\* the call logs with every synthesized id replaced by one name
ClientIds == {"x", "y", "z"}
SameButSynthId(logs) ==
    {[r EXCEPT !.id = IF r.id \in ClientIds THEN r.id ELSE "synthesized"] : r \in logs}
\* C10: fed the same requests, the two servers answer each with the same
\* status, hold the same devices and the same call logs (a synthesized id
\* standing for any other), and answer queries and statistics alike.
C10_VariantsEquivalent ==
    /\ sqRes.status = mgRes.status
    /\ sqDevices = mgDevices
    /\ SameButSynthId(sqCallLogs) = SameButSynthId(mgCallLogs)
    /\ (sqRes.route = "getCallLogs" /\ sqRes.status = 200) => sqRes.count = mgRes.count
    /\ (sqRes.route = "statistics" /\ sqRes.status = 200) =>
          /\ sqRes.totalDevices = mgRes.totalDevices
          /\ sqRes.totalCallLogs = mgRes.totalCallLogs
          /\ sqRes.callsByType = mgRes.callsByType

\* the topContacts listing t is one of the store logs: one entry per phone
\* number, each with the number of call logs of its phone number, in
\* non-increasing count order, as many entries as there are phone numbers up
\* to 10, and no phone number left out has more call logs than one listed
C11_TopOf(t, logs) ==
    LET listed == {t[i].phoneNumber : i \in 1..Len(t)}
        stored == {r.phoneNumber : r \in logs}
        calls(p) == Cardinality({r \in logs : r.phoneNumber = p})
    IN /\ Len(t) <= 10
       /\ Len(t) = IF Cardinality(stored) < 10 THEN Cardinality(stored) ELSE 10
       /\ \A i, j \in 1..Len(t) : i # j => t[i].phoneNumber # t[j].phoneNumber
       /\ \A i \in 1..Len(t) :
             t[i].phoneNumber \in stored /\ t[i].count = calls(t[i].phoneNumber)
       /\ \A i, j \in 1..Len(t) : i < j => t[i].count >= t[j].count
       /\ \A p \in stored \ listed : \A i \in 1..Len(t) : t[i].count >= calls(p)
\* C11: topContacts of every statistics response has at most 10 entries, one
\* per distinct phoneNumber, each with the number of stored call logs of that
\* phoneNumber, in non-increasing count order, and no phoneNumber left out
\* has a count greater than that of an entry returned.
C11_TopContacts ==
    \A s \in running :
        (Res(s).route = "statistics" /\ Res(s).status = 200) =>
            C11_TopOf(Res(s).topContacts, Logs(s))
\* a statistics response with 10 entries from a store of more than 10 phone
\* numbers, one of those left out having as many call logs as the last entry,
\* and two listed entries having different counts
C11_Witness ==
    \E s \in running :
        /\ Res(s).route = "statistics" /\ Res(s).status = 200
        /\ Len(Res(s).topContacts) = 10
        /\ Cardinality({r.phoneNumber : r \in Logs(s)}) > 10
        /\ Res(s).topContacts[1].count > Res(s).topContacts[10].count
        /\ \E r \in Logs(s) :
              /\ \A i \in 1..10 : Res(s).topContacts[i].phoneNumber # r.phoneNumber
              /\ Cardinality({l \in Logs(s) : l.phoneNumber = r.phoneNumber})
                    = Res(s).topContacts[10].count

====
